---- MODULE Spec2Model ----
(***************************************************************************)
(* Model of src/document.rs: the gemtext-like parser built from nom        *)
(* combinators.  A string is a sequence of one-character strings.  A       *)
(* parser result is a record [ok, rest, out]: ok = FALSE is nom's          *)
(* Err::Error, otherwise rest is the remaining input and out the output.   *)
(***************************************************************************)
EXTENDS Integers, Sequences, FiniteSets, TLC

VARIABLES raw, input, rest, mid, elem, elements, pc, result

vars == <<raw, input, rest, mid, elem, elements, pc, result>>

NL == "\n"
CR == "\r"
TAB == "\t"
SP == " "
\* the backtick; SANY's lexer rejects a backtick inside a string, so the
\* character is written as an apostrophe
BT == "'"
Fence == <<BT, BT, BT>>
LinkMarker == <<"=", ">">>

\* width of Heading.level (u8)
LevelModulus == 256

----------------------------------------------------------------------------
\* nom primitives and std string helpers

Fail == [ok |-> FALSE, rest |-> <<>>, out |-> <<>>]
Done(r, o) == [ok |-> TRUE, rest |-> r, out |-> o]
None == [some |-> FALSE, val |-> <<>>]
Some(s) == [some |-> TRUE, val |-> s]

Drop(s, n) == SubSeq(s, n + 1, Len(s))
Take(s, n) == SubSeq(s, 1, n)
StartsWith(s, t) == Len(s) >= Len(t) /\ Take(s, Len(t)) = t

\* result chaining: Result::or keeps the first Ok
Or(a, b) == IF a.ok THEN a ELSE b

tag(t, i) == IF StartsWith(i, t) THEN Done(Drop(i, Len(t)), t) ELSE Fail

\* index (0-based) of the first occurrence of t in i, or -1
FindSubstring(i, t) ==
  LET At(k) == SubSeq(i, k + 1, k + Len(t)) = t
      last == Len(i) - Len(t)
  IN IF \E k \in 0..last : At(k)
     THEN CHOOSE k \in 0..last : At(k) /\ \A j \in 0..(k - 1) : ~At(j)
     ELSE -1

take_until(t, i) ==
  LET k == FindSubstring(i, t)
  IN IF k < 0 THEN Fail ELSE Done(Drop(i, k), Take(i, k))

\* length of the longest prefix of i whose characters are all in S
SpanIn(i, S) ==
  CHOOSE n \in 0..Len(i) :
    /\ \A k \in 1..n : i[k] \in S
    /\ n = Len(i) \/ i[n + 1] \notin S

\* length of the longest prefix of i none of whose characters is in S
SpanNotIn(i, S) ==
  CHOOSE n \in 0..Len(i) :
    /\ \A k \in 1..n : i[k] \notin S
    /\ n = Len(i) \/ i[n + 1] \in S

\* char::is_ascii_whitespace
AsciiWhitespace == {SP, TAB, NL, CR, "\f"}
\* char::is_whitespace on the characters used here (str::trim)
Whitespace == {SP, TAB, NL, CR, "\f"}

space0(i) == LET n == SpanIn(i, {SP, TAB}) IN Done(Drop(i, n), Take(i, n))
space1(i) ==
  LET n == SpanIn(i, {SP, TAB})
  IN IF n = 0 THEN Fail ELSE Done(Drop(i, n), Take(i, n))

take_till_whitespace(i) ==
  LET n == SpanNotIn(i, AsciiWhitespace) IN Done(Drop(i, n), Take(i, n))

Reverse(s) == [k \in 1..Len(s) |-> s[Len(s) + 1 - k]]
TrimStart(s) == Drop(s, SpanIn(s, Whitespace))
Trim(s) == Reverse(TrimStart(Reverse(TrimStart(s))))

\* str::lines: split after every "\n", then strip the "\n" and a "\r"
\* before it from each piece
RECURSIVE SplitInclusive(_)
SplitInclusive(s) ==
  IF s = <<>> THEN <<>>
  ELSE LET n == SpanNotIn(s, {NL})
       IN IF n = Len(s) THEN <<s>>
          ELSE <<Take(s, n + 1)>> \o SplitInclusive(Drop(s, n + 1))

StripLineEnding(l) ==
  IF l # <<>> /\ l[Len(l)] = NL
  THEN LET m == Take(l, Len(l) - 1)
       IN IF m # <<>> /\ m[Len(m)] = CR THEN Take(m, Len(m) - 1) ELSE m
  ELSE l

\* variant: str::split('\n') in place of str::lines
RECURSIVE SplitNewline(_)
SplitNewline(s) ==
  LET n == SpanNotIn(s, {NL})
  IN IF n = Len(s) THEN <<s>>
     ELSE <<Take(s, n)>> \o SplitNewline(Drop(s, n + 1))
Lines_split(s) == SplitNewline(s)

Lines(s) ==
  LET p == SplitInclusive(s) IN [k \in 1..Len(p) |-> StripLineEnding(p[k])]

----------------------------------------------------------------------------
\* Element parsers

Text(t) == [kind |-> "Text", text |-> t]
Link(u, t) == [kind |-> "Link", url |-> u, text |-> t]
Preformatted(c, l) == [kind |-> "Preformatted", caption |-> c, lines |-> l]
Heading(n, t) == [kind |-> "Heading", level |-> n, text |-> t]
UnorderedListItem(t) == [kind |-> "UnorderedListItem", text |-> t]
Quote(t) == [kind |-> "Quote", text |-> t]

\* variant: the matched characters are not taken off the input
text_no_advance(i) ==
  LET n == SpanNotIn(i, {NL})
  IN IF n = 0 THEN Fail ELSE Done(i, Text(Trim(Take(i, n))))

text(i) ==
  LET n == SpanNotIn(i, {NL})
  IN IF n = 0 THEN Fail ELSE Done(Drop(i, n), Text(Trim(Take(i, n))))

link_without_text(i) ==
  LET m == tag(LinkMarker, i) IN
  IF ~m.ok THEN Fail ELSE
  LET s == space0(m.rest)
      l == take_until(<<NL>>, s.rest)
  IN IF ~l.ok THEN Fail ELSE Done(l.rest, Link(Trim(l.out), None))

link_with_text(i) ==
  LET m == tag(LinkMarker, i) IN
  IF ~m.ok THEN Fail ELSE
  LET s == space0(m.rest)
      u == take_till_whitespace(s.rest)
      w == space1(u.rest)
  IN IF ~w.ok THEN Fail ELSE
     LET t == take_until(<<NL>>, w.rest)
     IN IF ~t.ok THEN Fail
        ELSE Done(t.rest, Link(Trim(u.out), Some(Trim(t.out))))

link(i) == Or(link_with_text(i), link_without_text(i))

preformatted_start(i) ==
  LET f == tag(Fence, i) IN
  IF ~f.ok THEN Fail ELSE
  LET s == space0(f.rest)
      c == take_until(<<NL>>, s.rest)
  IN IF ~c.ok THEN Done(f.rest, None)
     ELSE Done(c.rest, IF Trim(c.out) = <<>> THEN None ELSE Some(Trim(c.out)))

\* variant: the block runs to the last fence instead of the first
FindLastSubstring(i, t) ==
  LET At(k) == SubSeq(i, k + 1, k + Len(t)) = t
      last == Len(i) - Len(t)
  IN IF \E k \in 0..last : At(k)
     THEN CHOOSE k \in 0..last : At(k) /\ \A j \in (k + 1)..last : ~At(j)
     ELSE -1
preformatted_last_fence(i) ==
  LET s == preformatted_start(i) IN
  IF ~s.ok THEN Fail ELSE
  LET n == tag(<<NL>>, s.rest) IN
  IF ~n.ok THEN Fail ELSE
  LET k == FindLastSubstring(n.rest, Fence) IN
  IF k < 0 THEN Fail
  ELSE Done(Drop(n.rest, k + 3), Preformatted(s.out, Lines(Take(n.rest, k))))

preformatted(i) ==
  LET s == preformatted_start(i) IN
  IF ~s.ok THEN Fail ELSE
  LET n == tag(<<NL>>, s.rest) IN
  IF ~n.ok THEN Fail ELSE
  LET c == take_until(Fence, n.rest) IN
  IF ~c.ok THEN Fail ELSE
  LET e == tag(Fence, c.rest)
  IN IF ~e.ok THEN Fail ELSE Done(e.rest, Preformatted(s.out, Lines(c.out)))

heading(i) ==
  LET n == SpanIn(i, {"#"}) IN
  IF n = 0 THEN Fail ELSE
  LET t == take_until(<<NL>>, Drop(i, n))
  IN IF ~t.ok THEN Fail
     ELSE Done(t.rest, Heading(n % LevelModulus, Trim(t.out)))

quote(i) ==
  LET m == tag(<<">">>, i) IN
  IF ~m.ok THEN Fail ELSE
  LET t == take_until(<<NL>>, m.rest)
  IN IF ~t.ok THEN Fail ELSE Done(t.rest, Quote(Trim(t.out)))

unordered_list_item(i) ==
  LET m == tag(<<"*">>, i) IN
  IF ~m.ok THEN Fail ELSE
  LET t == take_until(<<NL>>, m.rest)
  IN IF ~t.ok THEN Fail ELSE Done(t.rest, UnorderedListItem(Trim(t.out)))

Element_from_str(i) ==
  Or(preformatted(i),
  Or(link(i),
  Or(heading(i),
  Or(unordered_list_item(i),
  Or(quote(i),
     text(i))))))

\* many0(tag("\n"))
many0_newline(i) == Drop(i, SpanIn(i, {NL}))

\* variant: the input is parsed as given
Normalised_as_given(s) == s

\* the normalisation at the top of try_from
Normalised(s) == IF s = <<>> \/ s[Len(s)] # NL THEN Append(s, NL) ELSE s

----------------------------------------------------------------------------
\* Inputs

MaxTokens == 4
MaxPreTokens == 6
MaxHashes == 257

\* every marker, the separators and a plain character
Tokens == {Fence, LinkMarker, <<BT>>, <<NL>>, <<SP>>, <<TAB>>, <<"a">>,
           <<"#">>, <<">">>, <<"*">>}

\* what a preformatted block is made of
PreTokens == {Fence, <<BT>>, <<NL>>, <<CR>>, <<"a">>}

RECURSIVE StringsOver(_, _)
StringsOver(T, n) ==
  IF n = 0 THEN {<<>>}
  ELSE LET S == StringsOver(T, n - 1) IN S \cup {t \o s : t \in T, s \in S}

Hashes(n) == [k \in 1..n |-> "#"]

Inputs == StringsOver(Tokens, MaxTokens)
PreInputs == StringsOver(PreTokens, MaxPreTokens)
HeadingInputs ==
  {Hashes(n) \o t : n \in 1..MaxHashes,
                    t \in StringsOver({<<"a">>, <<SP>>, <<NL>>}, 1)}

NoElem == [kind |-> "None"]

----------------------------------------------------------------------------
\* Document::try_from as a state machine

InitWith(I) ==
  /\ raw \in I
  /\ input = <<>>
  /\ rest = <<>>
  /\ mid = <<>>
  /\ elem = NoElem
  /\ elements = <<>>
  /\ pc = "start"
  /\ result = "none"

Init == InitWith(Inputs)

\* try_from: append a newline when the input does not end with one
Normalise ==
  /\ pc = "start"
  /\ input' = Normalised(raw)
  /\ rest' = Normalised(raw)
  /\ mid' = Normalised(raw)
  /\ pc' = "elem"
  /\ UNCHANGED <<raw, elem, elements, result>>

\* one iteration of the outer many0: Element::from_str succeeds
RecognizeElement ==
  /\ pc = "elem"
  /\ Element_from_str(rest).ok
  /\ elem' = Element_from_str(rest).out
  /\ mid' = Element_from_str(rest).rest
  /\ pc' = "sep"
  /\ UNCHANGED <<raw, input, rest, elements, result>>

\* Element::from_str returns Err::Error: many0 stops with what it has
RecognizerFails ==
  /\ pc = "elem"
  /\ ~Element_from_str(rest).ok
  /\ pc' = "eof"
  /\ UNCHANGED <<raw, input, rest, mid, elem, elements, result>>

\* many0(tag("\n")) after the element, then many0's progress check
SkipSeparators ==
  /\ pc = "sep"
  /\ LET r == many0_newline(mid) IN
     IF Len(r) = Len(rest)
     THEN /\ pc' = "done"
          /\ result' = "err"
          /\ UNCHANGED <<rest, mid, elements>>
     ELSE /\ rest' = r
          /\ mid' = r
          /\ elements' = Append(elements, elem)
          /\ pc' = "elem"
          /\ UNCHANGED result
  /\ elem' = NoElem
  /\ UNCHANGED <<raw, input>>

\* eof after the loop; try_from maps the outcome to Ok / Err
CheckEof ==
  /\ pc = "eof"
  /\ result' = IF rest = <<>> THEN "ok" ELSE "err"
  /\ pc' = "done"
  /\ UNCHANGED <<raw, input, rest, mid, elem, elements>>

Next == \/ Normalise
        \/ RecognizeElement
        \/ RecognizerFails
        \/ SkipSeparators
        \/ CheckEof

Spec == Init /\ [][Next]_vars

InitPre == InitWith(PreInputs)
SpecPre == InitPre /\ [][Next]_vars

InitHeading == InitWith(HeadingInputs)
SpecHeading == InitHeading /\ [][Next]_vars

TypeOK == pc \in {"start", "elem", "sep", "eof", "done"}

----------------------------------------------------------------------------
\* Vocabulary of the properties

\* the text of the first line of s, without its newline
FirstLine(s) == Take(s, SpanNotIn(s, {NL}))
\* what follows the newline that ends the first line of s
AfterLine(s) == Drop(s, SpanNotIn(s, {NL}) + 1)
\* s contains the fence somewhere
HasFence(s) == \E p \in 1..(Len(s) - 2) : SubSeq(s, p, p + 2) = Fence
\* position of the first fence in s
FirstFence(s) ==
  CHOOSE p \in 1..(Len(s) - 2) :
    /\ SubSeq(s, p, p + 2) = Fence
    /\ \A q \in 1..(p - 1) : SubSeq(s, q, q + 2) # Fence
\* the cursor of the current iteration stands at the start of a line
AtLineStart == rest = input \/ input[Len(input) - Len(rest)] = NL
\* segments of s between newlines, the one after the last newline included
RECURSIVE SplitNL(_)
SplitNL(s) ==
  LET n == SpanNotIn(s, {NL})
  IN IF n = Len(s) THEN <<s>> ELSE <<Take(s, n)>> \o SplitNL(Drop(s, n + 1))
Segments(s) == IF s = <<>> THEN <<>> ELSE SplitNL(s)
\* the span the element just recognised was made from
Consumed == Take(rest, Len(rest) - Len(mid))
\* for a preformatted block: what lies between the newline of the opening
\* fence line and the closing fence
Content == SubSeq(Consumed, Len(FirstLine(Consumed)) + 2, Len(Consumed) - 3)
Returned == pc = "done" /\ result = "ok"

\* C1: the empty input and inputs made only of newlines parse to a document
\* with zero elements, never to an error
C1_EmptyInputIsEmptyDocument ==
  (pc = "done" /\ \A k \in 1..Len(raw) : raw[k] = NL)
    => (result = "ok" /\ elements = <<>>)

\* C2: a line that begins with the fence and has no fence anywhere after it
\* is never accepted as some other element, and an input whose first line is
\* such a line is an error
C2_UnterminatedFenceFails ==
  /\ ~(pc = "sep" /\ AtLineStart /\ StartsWith(rest, Fence)
         /\ ~HasFence(AfterLine(rest)))
  /\ (pc = "done" /\ StartsWith(raw, Fence) /\ ~HasFence(AfterLine(raw)))
       => result = "err"

\* C3: every Link of a returned document has a url that is not empty after
\* trimming
C3_LinkUrlNonEmpty ==
  Returned =>
    \A k \in 1..Len(elements) :
      elements[k].kind = "Link" => Trim(elements[k].url) # <<>>

\* C4: a Link made from a line has text = Some(t) only when a non-whitespace
\* character follows the whitespace run after the url, and t is never empty
C4_LinkTextOnlyWithSecondToken ==
  (pc = "sep" /\ StartsWith(rest, LinkMarker) /\ elem.kind = "Link"
     /\ elem.text.some)
    => LET a == Drop(FirstLine(rest), 2)
           u == Drop(a, SpanIn(a, {SP, TAB}))
           t == Drop(u, SpanNotIn(u, {SP, TAB}))
       IN /\ \E k \in 1..Len(t) : t[k] \notin Whitespace
          /\ elem.text.val # <<>>

\* C5: a line beginning with n >= 1 consecutive # gives a Heading whose level
\* is n, so the level is at least 1
C5_HeadingLevelIsMarkerCount ==
  (pc = "sep" /\ StartsWith(rest, <<"#">>))
    => /\ elem.kind = "Heading"
       /\ elem.level = SpanIn(rest, {"#"})
       /\ elem.level >= 1

\* C6 as stated: lines are the newline-separated segments of the content,
\* the empty segment after a final newline included, each unmodified
C6_LinesAreAllSegments ==
  (pc = "sep" /\ elem.kind = "Preformatted") => elem.lines = Segments(Content)

\* C6 amended: lines are the newline-separated segments of the content
\* without the empty segment after a final newline; a segment loses a
\* carriage return that stands right before its newline and is otherwise
\* unmodified
C6_LinesAreSegmentsWithoutTrailingEmpty ==
  (pc = "sep" /\ elem.kind = "Preformatted")
    => LET segs == Segments(Content)
           n == IF segs # <<>> /\ segs[Len(segs)] = <<>>
                THEN Len(segs) - 1 ELSE Len(segs)
           seg(k) == IF k < Len(segs) /\ segs[k] # <<>>
                        /\ segs[k][Len(segs[k])] = CR
                     THEN Take(segs[k], Len(segs[k]) - 1) ELSE segs[k]
       IN elem.lines = [k \in 1..n |-> seg(k)]

C6_Witness ==
  /\ pc = "sep" /\ elem.kind = "Preformatted"
  /\ Len(Content) >= 2 /\ Content[Len(Content)] = NL
  /\ Len(elem.lines) >= 1

\* C7: an input whose lines carry no marker parses to one Text per non-blank
\* line, in order, each the trimmed line, wherever the blank lines stand
C7_PlainLinesBecomeTexts ==
  LET segs == Segments(raw)
      marked(l) == \/ StartsWith(l, Fence) \/ StartsWith(l, LinkMarker)
                   \/ StartsWith(l, <<"#">>) \/ StartsWith(l, <<"*">>)
                   \/ StartsWith(l, <<">">>)
      kept == SelectSeq(segs, LAMBDA l : l # <<>>)
  IN (pc = "done" /\ \A k \in 1..Len(segs) : ~marked(segs[k]))
       => /\ result = "ok"
          /\ elements = [k \in 1..Len(kept) |-> Text(Trim(kept[k]))]

\* C8: at an opening fence whose following text holds a fence, the block's
\* content is the text up to the first fence and the cursor is left right
\* after that fence
C8_FirstFenceClosesBlock ==
  (pc = "sep" /\ StartsWith(rest, Fence) /\ HasFence(AfterLine(rest)))
    => LET body == AfterLine(rest)
           p == FirstFence(body)
       IN /\ elem.kind = "Preformatted"
          /\ elem.lines = Lines(Take(body, p - 1))
          /\ mid = Drop(body, p + 2)

C8_Witness ==
  /\ pc = "sep" /\ StartsWith(rest, Fence) /\ HasFence(AfterLine(rest))
  /\ elem.kind = "Preformatted"
  /\ HasFence(mid)

\* C9: every recognition consumes at least one character, separator
\* skipping only moves forward, each iteration advances the cursor, the loop
\* ends at the first recognizer failure, there are never more elements than
\* input characters, and try_from terminates: every step lowers a measure
\* that starts at twice the length of the normalised input plus three
C9_Terminates ==
  /\ [][LET Rank(p, r, w) ==
              CASE p = "start" -> 2 * Len(Normalised(w)) + 3
                [] p = "elem" -> 2 * Len(r) + 2
                [] p = "sep" -> 2 * Len(r) + 1
                [] p = "eof" -> 1
                [] OTHER -> 0
        IN /\ (pc = "elem" /\ pc' = "sep") => Len(mid') < Len(rest)
           /\ (pc = "sep" /\ pc' = "elem")
                => /\ Len(rest') <= Len(mid)
                   /\ rest' = Drop(mid, Len(mid) - Len(rest'))
                   /\ Len(rest') < Len(rest)
           /\ (pc = "elem" /\ pc' # "sep")
                => (pc' = "eof" /\ elements' = elements)
           /\ pc = "eof" => pc' = "done"
           /\ Rank(pc', rest', raw') < Rank(pc, rest, raw)]_vars
  /\ [](Len(elements) <= Len(input))

C9_Witness == pc = "done" /\ Len(elements) >= 2 /\ result = "ok"

\* C10: try_from fails exactly when the input is empty or starts with a
\* newline, and every other input gives a document with at least one element
C10_ErrorIffLeadingNewline ==
  pc = "done"
    => /\ result = "err" <=> (raw = <<>> \/ raw[1] = NL)
       /\ result = "ok" => Len(elements) >= 1

C10_Witness ==
  /\ pc = "done" /\ result = "ok"
  /\ StartsWith(raw, Fence) /\ elements[1].kind = "Text"
====
